---- MODULE Spec2Model ----
(***************************************************************************)
(* Dental clinic receptionist: the conversation state and the workflow     *)
(* orchestrator of src/receptionist.py, with the collaborators it calls    *)
(* (LLM text completion + JSON extraction, the SQL executor, the calendar  *)
(* link builder) as nondeterministic inputs of every turn.                 *)
(*                                                                         *)
(* Python values are written as strings holding their repr: None is        *)
(* "None", the integer 35 is "35", False is "False".  Truthy is Python's   *)
(* truth test on those values.                                             *)
(***************************************************************************)
EXTENDS Naturals, Sequences, FiniteSets, TLC

VARIABLES
    state,   \* ReceptionistBrain.state : the ConversationState fields
    db,      \* the relational store behind db_executor
    last,    \* what the last operation did (reply, exception, side effects)
    hist,    \* per-session history of side effects (cleared by reset)
    clock,   \* operations so far
    voice,   \* voice_utils: the shared SpeechRecognizer and its callers
    app      \* app.py: the chat page and the threads that speak replies

vars == <<state, db, last, hist, clock, voice, app>>

----------------------------------------------------------------------------
(* Bounds of the exploration *)

MaxTurns == 3          \* operations (turns and resets) of one run

MaxThreads == 3        \* capture threads created in one run

MaxWords == 2          \* phrases captured in one run

MaxPieces == 3         \* pieces of a completion given to parse_json_from_text

MaxSpeaks == 3         \* calls of TextToSpeech.speak in one run

----------------------------------------------------------------------------
(* Python values *)

NULL == "None"

Truthy(v) == v \notin {"None", "", "0", "False"}

\* str-typed values of the model; .replace() exists on these only
IsStr(v) == v \notin {"None", "0", "35", "28", "1", "2", "3", "4", "5", "6", "7", "8", "9",
                      "True", "False"}

\* int-typed values: what an unquoted SQL literal accepts
IsInt(v) == v \in {"0", "35", "28", "1", "2", "3", "4", "5", "6", "7", "8", "9"}

\* LOWER(TRIM(x)) of the SQL lookup, on the strings of the model
LowerTrim(s) ==
    CASE s = "Rohit"  -> "rohit"
      [] s = "Sharma" -> "sharma"
      [] s = "Priya"  -> "priya"
      [] s = "priya " -> "priya"
      [] s = "Verma"  -> "verma"
      [] s = "None"   -> "none"
      [] OTHER        -> s

\* str.capitalize()
Capitalize(s) ==
    CASE s = "male"   -> "Male"
      [] s = "female" -> "Female"
      [] OTHER        -> s

----------------------------------------------------------------------------
(* ConversationState.  update_from_dict sets every name for which hasattr   *)
(* is true, and that holds of the methods of the class too: a value set     *)
(* under a method's name becomes an instance attribute that hides the       *)
(* method, and calling it raises TypeError.  A method slot holds "method"   *)
(* until a value is set over it.                                            *)

METHOD == "method"

ConversationState ==
    [ client_id          |-> NULL,
      first_name         |-> NULL,
      last_name          |-> NULL,
      email              |-> "",
      phone_no           |-> NULL,
      age                |-> NULL,
      gender             |-> NULL,
      appointment_date   |-> NULL,
      appointment_time   |-> NULL,
      appointment_reason |-> NULL,
      conversation_stage |-> "initial",
      current_task       |-> NULL,
      waiting_for        |-> NULL,
      client_checked     |-> "False",
      to_dict                       |-> METHOD,
      update_from_dict              |-> METHOD,
      has_complete_name             |-> METHOD,
      has_complete_client_info      |-> METHOD,
      has_complete_appointment_info |-> METHOD,
      reset                         |-> METHOD ]

\* the names hasattr(state, name) holds of
Attributes == DOMAIN ConversationState

Methods == { "to_dict", "update_from_dict", "has_complete_name",
             "has_complete_client_info", "has_complete_appointment_info", "reset" }

\* the fields __init__ assigns (current_date and current_time left out)
Fields == Attributes \ Methods

\* state.m() can be called: m is not hidden by an instance attribute
Callable(s, m) == s[m] = METHOD

to_dict(s) == [k \in Fields |-> s[k]]

update_from_dict_clears(s, data) ==
    [k \in DOMAIN s |-> IF k \in DOMAIN data THEN data[k] ELSE s[k]]

update_from_dict(s, data) ==
    [k \in DOMAIN s |->
        IF k \in DOMAIN data /\ data[k] # NULL THEN data[k] ELSE s[k]]

has_complete_name(s) == Truthy(s.first_name) /\ Truthy(s.last_name)

has_complete_client_info(s) ==
    /\ Truthy(s.first_name)
    /\ Truthy(s.last_name)
    /\ Truthy(s.phone_no)
    /\ Truthy(s.age)
    /\ Truthy(s.gender)

has_complete_appointment_info(s) ==
    /\ Truthy(s.appointment_date)
    /\ Truthy(s.appointment_time)
    /\ Truthy(s.appointment_reason)

\* self.__init__(): assigns every field; an instance attribute that hides a
\* method stays
reset(s) == [k \in DOMAIN s |-> IF k \in Fields THEN ConversationState[k] ELSE s[k]]

----------------------------------------------------------------------------
(* JSON values exchanged with the LLM.  None is JNone; a dict is            *)
(* [t |-> "dict", v |-> <function from keys to values>]; strings, numbers   *)
(* and booleans are the repr strings above.                                 *)

JNone == [t |-> "None"]

Dict(f) == [t |-> "dict", v |-> f]

EmptyDict == Dict(<<>>)

IsDict(x) == x.t = "dict"

\* dict.get(key, default)
Get(d, key, default) == IF key \in DOMAIN d.v THEN d.v[key] ELSE default

\* truth test of a value that is None or a dict
TruthyObj(x) == IsDict(x) /\ DOMAIN x.v # {}

(* A completion is a sequence of pieces: prose (any text without braces),   *)
(* a well-formed JSON object, a brace pair around text that is not JSON,    *)
(* or a stray brace.  The empty sequence is None or "".                     *)
Prose == [t |-> "prose"]
Obj(f) == [t |-> "object", v |-> f]
BadObj == [t |-> "badobject"]
OpenBrace == [t |-> "open"]
CloseBrace == [t |-> "close"]

HasOpen(p) == p.t \in {"object", "badobject", "open"}
HasClose(p) == p.t \in {"object", "badobject", "close"}

Min(S) == CHOOSE x \in S : \A y \in S : x <= y
Max(S) == CHOOSE x \in S : \A y \in S : x >= y

parse_json_from_text_empty(text) ==
    IF text = <<>> THEN EmptyDict
    ELSE LET opens == {i \in 1..Len(text) : HasOpen(text[i])}
         IN  IF opens = {} THEN EmptyDict
             ELSE LET first == Min(opens)
                      closes == {i \in first..Len(text) : HasClose(text[i])}
                  IN  IF closes = {} THEN EmptyDict
                      ELSE LET lastc == Max(closes)
                           IN  IF first = lastc /\ text[first].t = "object"
                               THEN Dict(text[first].v)
                               ELSE EmptyDict

\* LLMHandler.parse_json_from_text: re.search(r"\{.*\}", text, re.DOTALL) is
\* greedy, from the first "{" to the last "}"; json.loads of that span.
parse_json_from_text(text) ==
    IF text = <<>> THEN JNone
    ELSE LET opens == {i \in 1..Len(text) : HasOpen(text[i])}
         IN  IF opens = {} THEN JNone
             ELSE LET first == Min(opens)
                      closes == {i \in first..Len(text) : HasClose(text[i])}
                  IN  IF closes = {} THEN JNone
                      ELSE LET lastc == Max(closes)
                           IN  IF first = lastc /\ text[first].t = "object"
                               THEN Dict(text[first].v)
                               ELSE JNone

----------------------------------------------------------------------------
(* The store: db_executor(sql).  A call behaves "ok" (the statement runs),  *)
(* "none" (the statement fails inside execute_query, which swallows the     *)
(* error and returns None) or "raise" (the collaborator raises).  A         *)
(* statement the schema or the SQL parser rejects never runs.               *)

DbBehaviours == {"ok", "none", "raise"}

ClientRow(id, fn, ln, em, ph, ag, ge) ==
    [ client_id |-> id, first_name |-> fn, last_name |-> ln, email |-> em,
      phone_no |-> ph, age |-> ag, gender |-> ge ]

AppointmentRow(cid, d, tm, r) ==
    [ client_id |-> cid, appointment_date |-> d, appointment_time |-> tm,
      reason |-> r, status |-> "Scheduled" ]

\* AUTOINCREMENT keys, as repr strings
Ids == <<"1", "2", "3", "4", "5", "6", "7", "8", "9">>

\* a store holding one client, Priya Verma of create_db.py's sample rows, and
\* no appointment
InitialDb ==
    [ clients |-> << ClientRow("1", "Priya", "Verma", "priya.verma@example.com",
                               "+91-9123456780", "28", "Female") >>,
      appointments |-> << >> ]

\* SELECT ... FROM clients WHERE LOWER(TRIM(..)) = LOWER(TRIM(..)) ... LIMIT 1
SelectClient(d, first_name, last_name) ==
    LET Match(row) == /\ LowerTrim(row.first_name) = LowerTrim(first_name)
                      /\ LowerTrim(row.last_name) = LowerTrim(last_name)
        rows == SelectSeq(d.clients, Match)
    IN  IF rows = << >> THEN << >> ELSE << rows[1] >>

\* SELECT ... FROM appointments WHERE client_id = .. LIMIT 10
SelectAppointments(d, client_id) ==
    LET Match(row) == row.client_id = client_id
    IN  SelectSeq(d.appointments, Match)

\* CHECK and NOT NULL constraints of the clients table; age is an unquoted literal
ClientInsertValid(age, gender) ==
    /\ IsInt(age)
    /\ gender \in {"Male", "Female", "Other"}

\* client_id is an unquoted literal: None is not SQL
AppointmentInsertValid(client_id) == IsInt(client_id)

\* side effects of a turn, in order
Op(op, first_name, last_name, client_id, out) ==
    [ op |-> op, first_name |-> first_name, last_name |-> last_name,
      client_id |-> client_id, out |-> out ]

NoOps == << >>

\* a completion asked of the LLM, and whether the text held a JSON object at all
LlmOp(agent, text, first_name, last_name) ==
    Op(agent, first_name, last_name, NULL,
       IF \E i \in 1..Len(text) : text[i].t = "object" THEN "json" ELSE "nojson")

----------------------------------------------------------------------------
(* Persistence operations of ReceptionistBrain.  Each returns the value the *)
(* Python method returns, the store after it and the side effects it made.  *)
(* Values: [t |-> "None"], [t |-> "exists", ...], [t |-> "list", ...],      *)
(* [t |-> "int", ...] (a client_id), [t |-> "booking", ...].                *)

NoRow == ClientRow(NULL, NULL, NULL, NULL, NULL, NULL, NULL)

_check_client_exists(d, first_name, last_name, b) ==
    IF b = "raise"
    THEN [ value |-> [t |-> "None"], db |-> d,
           ops |-> << Op("lookup", first_name, last_name, NULL, "error") >> ]
    ELSE LET result == IF b = "ok" THEN SelectClient(d, first_name, last_name)
                       ELSE << >>
         IN  IF Len(result) > 0
             THEN [ value |-> [t |-> "exists", exists |-> TRUE, client |-> result[1]],
                    db |-> d,
                    ops |-> << Op("lookup", first_name, last_name,
                                  result[1].client_id, "match") >> ]
             ELSE [ value |-> [t |-> "exists", exists |-> FALSE, client |-> NoRow],
                    db |-> d,
                    ops |-> << Op("lookup", first_name, last_name, NULL,
                                  IF b = "ok" THEN "nomatch" ELSE "error") >> ]

_get_client_appointments(d, client_id, b) ==
    IF b = "raise"
    THEN [ value |-> [t |-> "None"], db |-> d,
           ops |-> << Op("select_appointments", NULL, NULL, client_id, "error") >> ]
    ELSE LET ran == b = "ok" /\ IsInt(client_id)
             result == IF ran THEN SelectAppointments(d, client_id) ELSE << >>
         IN  [ value |-> [t |-> "list", rows |-> result], db |-> d,
               ops |-> << Op("select_appointments", NULL, NULL, client_id,
                             IF ran THEN "ok" ELSE "error") >> ]

\* params is a dict; b1 is the behaviour of the INSERT, b2 of the SELECT after it
_create_client(d, params, b1, b2) ==
    LET first_name == Get(params, "first_name", "")
        last_name  == Get(params, "last_name", "")
        email      == Get(params, "email", "")
        phone_no   == Get(params, "phone_no", "")
        gender     == Get(params, "gender", "")
        age        == Get(params, "age", NULL)
    IN  IF ~(IsStr(first_name) /\ IsStr(last_name) /\ IsStr(email)
             /\ IsStr(phone_no) /\ IsStr(gender))
        THEN \* .replace on a value that is no str: AttributeError, caught
             [ value |-> [t |-> "None"], db |-> d, ops |-> NoOps ]
        ELSE IF b1 = "raise"
        THEN [ value |-> [t |-> "None"], db |-> d,
               ops |-> << Op("insert_client", first_name, last_name, NULL, "error") >> ]
        ELSE LET ran == b1 = "ok" /\ ClientInsertValid(age, Capitalize(gender))
                 id  == Ids[Len(d.clients) + 1]
                 d1  == IF ran
                        THEN [d EXCEPT !.clients = Append(@,
                                 ClientRow(id, first_name, last_name, email, phone_no,
                                           age, Capitalize(gender)))]
                        ELSE d
                 ins == Op("insert_client", first_name, last_name,
                           IF ran THEN id ELSE NULL, IF ran THEN "ok" ELSE "error")
                 found == _check_client_exists(d1, first_name, last_name, b2)
                 \* the same lookup, logged as the read-back of the new row
                 check_result ==
                     [found EXCEPT !.ops = << [found.ops[1] EXCEPT !.op = "lookup_created"] >>]
             IN  IF check_result.value.t = "exists" /\ check_result.value.exists
                 THEN [ value |-> [t |-> "int", id |-> check_result.value.client.client_id],
                        db |-> d1, ops |-> << ins >> \o check_result.ops ]
                 ELSE [ value |-> [t |-> "None"],
                        db |-> d1, ops |-> << ins >> \o check_result.ops ]

CalendarBehaviours == {"link", "none", "raise"}

\* b is the behaviour of the INSERT, cal of calendar_creator
_create_appointment(d, params, b, cal) ==
    LET reason == Get(params, "reason", "")
        client_id == Get(params, "client_id", NULL)
        appointment_date == Get(params, "appointment_date", NULL)
        appointment_time == Get(params, "appointment_time", NULL)
    IN  IF ~IsStr(reason)
        THEN [ value |-> [t |-> "None"], db |-> d, ops |-> NoOps ]
        ELSE IF b = "raise"
        THEN [ value |-> [t |-> "None"], db |-> d,
               ops |-> << Op("insert_appointment", NULL, NULL, client_id, "error") >> ]
        ELSE LET ran == b = "ok" /\ AppointmentInsertValid(client_id)
                 d1  == IF ran
                        THEN [d EXCEPT !.appointments = Append(@,
                                 AppointmentRow(client_id, appointment_date,
                                                appointment_time, reason))]
                        ELSE d
                 ins == Op("insert_appointment", NULL, NULL, client_id,
                           IF ran THEN "ok" ELSE "error")
                 calop == Op("calendar", NULL, NULL, client_id,
                             IF cal = "link" THEN "ok" ELSE "error")
             IN  IF cal = "raise"
                 THEN [ value |-> [t |-> "None"], db |-> d1, ops |-> << ins, calop >> ]
                 ELSE [ value |-> [t |-> "booking", success |-> TRUE,
                                   calendar_link |-> IF cal = "link" THEN "url" ELSE NULL],
                        db |-> d1, ops |-> << ins, calop >> ]

\* function_call is a truthy value: a dict (a str or a list has no .get: caught)
_execute_function_call(d, function_call, b1, b2, cal) ==
    LET func_name == Get(function_call, "function", NULL)
        params == Get(function_call, "params", EmptyDict)
        none == [ value |-> [t |-> "None"], db |-> d, ops |-> NoOps ]
    IN  IF ~IsDict(function_call) THEN none
        ELSE IF func_name \in {"check_client_exists", "get_client_appointments"}
                /\ ~IsDict(params)
        THEN none   \* params.get on None: AttributeError, caught
        ELSE IF func_name = "check_client_exists"
        THEN _check_client_exists(d, Get(params, "first_name", NULL),
                                  Get(params, "last_name", NULL), b1)
        ELSE IF func_name = "get_client_appointments"
        THEN _get_client_appointments(d, Get(params, "client_id", NULL), b1)
        ELSE IF func_name = "create_client"
        THEN IF IsDict(params) THEN _create_client(d, params, b1, b2) ELSE none
        ELSE IF func_name = "create_appointment"
        THEN IF IsDict(params) THEN _create_appointment(d, params, b1, cal) ELSE none
        ELSE none

----------------------------------------------------------------------------
(* Control flow.  A method ends by returning a reply or by raising; either  *)
(* way it leaves a session state, a store and the side effects it made.     *)

Return(s, d, reply, ops) ==
    [ state |-> s, db |-> d, reply |-> reply, exc |-> FALSE, ops |-> ops,
      merged |-> JNone ]

Raise(s, d, ops) ==
    [ state |-> s, db |-> d, reply |-> NULL, exc |-> TRUE, ops |-> ops,
      merged |-> JNone ]

\* r, remembering the session state s1 its flow held right after the merge of
\* data_collected
Merged(s1, r) == [r EXCEPT !.merged = s1]

\* the calls made before r, then those of r
After(ops, r) == [r EXCEPT !.ops = ops \o @]

Except_narrow(r, reply) == r

\* try: ... except Exception: return <reply>
Except(r, reply) ==
    IF r.exc THEN [r EXCEPT !.exc = FALSE, !.reply = reply] ELSE r

_format_appointments_response(s, d, appointments, ops) ==
    IF appointments.t = "None"
    THEN Return(s, d, "I couldn't retrieve your appointments", ops)
    ELSE IF appointments.t = "list"
    THEN IF Len(appointments.rows) = 0
         THEN Return(s, d, "You don't have any appointments scheduled", ops)
         ELSE Return(s, d, "Here are your appointments", ops)
    ELSE Raise(s, d, ops)   \* len() of an int, or apt['date'] on a dict key

_format_appointment_creation_response(s, d, result, ops) ==
    IF result.t = "booking"
    THEN Return([s EXCEPT !.appointment_date = NULL,
                          !.appointment_time = NULL,
                          !.appointment_reason = NULL],
                d,
                IF Truthy(result.calendar_link)
                THEN "Perfect! Your appointment is confirmed + calendar link"
                ELSE "Perfect! Your appointment is confirmed",
                ops)
    ELSE IF \/ result.t = "int"
            \/ (result.t = "list" /\ Len(result.rows) > 0)
    THEN Raise(s, d, ops)   \* .get on an int or a list
    ELSE Return(s, d, "I had trouble booking your appointment", ops)

\* _check_client_exists catches what the store raises and returns None; the
\* except clause is entered only when update_from_dict cannot be called
_check_and_route_client(s, d, b) ==
    LET client_check == _check_client_exists(d, s.first_name, s.last_name, b)
        s1 == [s EXCEPT !.client_checked = "True"]
    IN  Except(
          IF client_check.value.t = "exists" /\ client_check.value.exists
          THEN IF ~Callable(s1, "update_from_dict")
               THEN Raise(s1, d, client_check.ops)
               ELSE
               Return([update_from_dict(s1, client_check.value.client)
                          EXCEPT !.conversation_stage = "existing_client"],
                      d, "Welcome back", client_check.ops)
          ELSE Return([s1 EXCEPT !.conversation_stage = "new_client_collecting_info"],
                      d, "Nice to meet you ... provide your phone number",
                      client_check.ops),
          "I had trouble checking our records")

existing_client_flow_body(s, d, text, b1, b2, cal) ==
    LET result == parse_json_from_text(text)
        action == Get(result, "action", "collect_info")
        bot_response == Get(result, "response", "")
        data_collected == Get(result, "data_collected", EmptyDict)
        function_call == Get(result, "function_call", JNone)
        s1 == IF TruthyObj(data_collected)
              THEN update_from_dict(s, data_collected.v) ELSE s
        func_result == _execute_function_call(d, function_call, b1, b2, cal)
    IN  IF ~IsDict(result) THEN Raise(s, d, NoOps)
        ELSE IF TruthyObj(data_collected) /\ ~Callable(s, "update_from_dict")
        THEN Raise(s, d, NoOps)
        ELSE Merged(s1,
          IF TruthyObj(function_call)
          THEN IF action = "check_appointments"
               THEN _format_appointments_response(s1, func_result.db,
                                                  func_result.value, func_result.ops)
               ELSE IF action = "create_appointment"
               THEN _format_appointment_creation_response(s1, func_result.db,
                                                  func_result.value, func_result.ops)
               ELSE Return(s1, func_result.db, bot_response, func_result.ops)
          ELSE Return(s1, d, bot_response, NoOps))

_handle_existing_client_flow(s, d, text, b1, b2, cal) ==
    Except(After(<< LlmOp("llm_slot_existing", text, NULL, NULL) >>,
                 existing_client_flow_body(s, d, text, b1, b2, cal)),
           "How can I help you today? book or check")

new_client_flow_body(s, d, text, b1, b2, cal) ==
    LET result == parse_json_from_text(text)
        data_collected == Get(result, "data_collected", EmptyDict)
        bot_response == Get(result, "response", "")
        function_call == Get(result, "function_call", JNone)
        s1 == IF TruthyObj(data_collected)
              THEN update_from_dict(s, data_collected.v) ELSE s
        created == _create_client(d,
                      Dict([ first_name |-> s1.first_name,
                             last_name  |-> s1.last_name,
                             email      |-> IF Truthy(s1.email) THEN s1.email ELSE "",
                             phone_no   |-> s1.phone_no,
                             age        |-> s1.age,
                             gender     |-> s1.gender ]),
                      b1, b2)
        func_result == _execute_function_call(d, function_call, b1, b2, cal)
    IN  IF ~IsDict(result) THEN Raise(s, d, NoOps)
        ELSE IF TruthyObj(data_collected) /\ ~Callable(s, "update_from_dict")
        THEN Raise(s, d, NoOps)
        ELSE Merged(s1,
          IF ~Callable(s1, "has_complete_client_info")
          THEN Raise(s1, d, NoOps)
          ELSE IF has_complete_client_info(s1) /\ ~Truthy(s1.client_id)
          THEN IF created.value.t = "int" /\ Truthy(created.value.id)
               THEN Return([s1 EXCEPT !.client_id = created.value.id,
                                      !.conversation_stage = "existing_client"],
                           created.db, "Great! I've created your profile", created.ops)
               ELSE Return(s1, created.db,
                           "I had trouble creating your profile", created.ops)
          ELSE IF Truthy(s1.client_id) /\ ~Callable(s1, "has_complete_appointment_info")
          THEN Raise(s1, d, NoOps)
          ELSE IF /\ Truthy(s1.client_id)
                  /\ has_complete_appointment_info(s1)
                  /\ TruthyObj(function_call)
          THEN _format_appointment_creation_response(s1, func_result.db,
                                                     func_result.value, func_result.ops)
          ELSE Return(s1, d, bot_response, NoOps))

_handle_new_client_flow(s, d, text, b1, b2, cal) ==
    Except(After(<< LlmOp("llm_slot_new", text, NULL, NULL) >>,
                 new_client_flow_body(s, d, text, b1, b2, cal)),
           "I need a bit more information")

\* returns the parsed dict, or None when nothing parses
_extract_name_from_query(text) == parse_json_from_text(text)

appointment_workflow_body(s, d, in) ==
    LET name_extraction == _extract_name_from_query(in.name_text)
    IN  IF ~Callable(s, "has_complete_name")
        THEN Raise(s, d, NoOps)
        ELSE IF ~has_complete_name(s)
        THEN IF ~IsDict(name_extraction)
             THEN Raise(s, d, << LlmOp("llm_name", in.name_text, NULL, NULL) >>)
             ELSE After(
               << LlmOp("llm_name", in.name_text,
                        IF Truthy(Get(name_extraction, "has_name", NULL))
                        THEN Get(name_extraction, "first_name", NULL) ELSE NULL,
                        IF Truthy(Get(name_extraction, "has_name", NULL))
                        THEN Get(name_extraction, "last_name", NULL) ELSE NULL) >>,
               IF Truthy(Get(name_extraction, "has_name", NULL))
               THEN _check_and_route_client(
                      [s EXCEPT !.first_name = Get(name_extraction, "first_name", NULL),
                                !.last_name = Get(name_extraction, "last_name", NULL)],
                      d, in.b1)
               ELSE Return(s, d, "could you please provide your full name?", NoOps))
        ELSE IF ~Truthy(s.client_checked)
        THEN _check_and_route_client(s, d, in.b1)
        ELSE IF Truthy(s.client_id)
        THEN _handle_existing_client_flow(s, d, in.slot_text, in.b1, in.b2, in.cal)
        ELSE _handle_new_client_flow(s, d, in.slot_text, in.b1, in.b2, in.cal)

_handle_appointment_workflow(s, d, in) ==
    Except(appointment_workflow_body(s, d, in),
           "I apologize, something went wrong")

generic_query_body(s, d, text) ==
    LET result == parse_json_from_text(text)
    IN  IF ~IsDict(result) THEN Raise(s, d, NoOps)
        ELSE Return(s, d, Get(result, "response", "How can I help you today?"), NoOps)

\* a generic responder that starts the conversation over
_handle_generic_query_resets(s, d, text) ==
    Except(After(<< LlmOp("llm_generic", text, NULL, NULL) >>,
                 generic_query_body(reset(s), d, text)),
           "How can I assist you today?")

_handle_generic_query(s, d, text) ==
    Except(After(<< LlmOp("llm_generic", text, NULL, NULL) >>,
                 generic_query_body(s, d, text)),
           "How can I assist you today?")

_route_query_guess(s, text) ==
    IF IsDict(parse_json_from_text(text)) THEN parse_json_from_text(text)
    ELSE Dict([target_agent |-> "generic_query_handler"])

\* returns the routing dict, or None: also when state.to_dict() raises while
\* the prompt is built, before the LLM is asked
_route_query(s, text) ==
    IF Callable(s, "to_dict") THEN parse_json_from_text(text) ELSE JNone

process_query_body(s, d, in) ==
    LET routing == _route_query(s, in.route_text)
        target_agent == Get(routing, "target_agent", "generic_query_handler")
    IN  After(IF Callable(s, "to_dict")
              THEN << LlmOp("llm_router", in.route_text, NULL, NULL) >>
              ELSE NoOps,
          IF ~TruthyObj(routing)
          THEN Return(s, d, "I'm having trouble understanding. rephrase", NoOps)
          ELSE IF target_agent = "generic_query_handler"
          THEN _handle_generic_query(s, d, in.generic_text)
          ELSE IF target_agent = "appointment_manager"
          THEN _handle_appointment_workflow(s, d, in)
          ELSE Return(s, d, "I'm not sure how to help with that", NoOps))

process_query(s, d, in) ==
    Except(process_query_body(s, d, in), "I apologize, I encountered an error")

----------------------------------------------------------------------------
(* voice_utils.SpeechRecognizer: the module-level recognizer, shared by the *)
(* threads that call start_dictation and stop_dictation.  A step is one     *)
(* statement of a method; threads interleave between statements.            *)

Callers == { "c1", "c2" }

\* pc: where each caller stands; ret: what its last call returned;
\* threads: the capture threads alive, numbered in order of creation
SpeechRecognizer ==
    [ dictation_running |-> FALSE,
      dictation_text    |-> << >>,
      threads           |-> {},
      created           |-> 0,
      pc                |-> [c \in Callers |-> "idle"],
      ret               |-> [c \in Callers |-> NULL] ]

\* if self.dictation_running: return False
StartCheck(c) ==
    /\ voice.pc[c] = "idle"
    /\ voice.created < MaxThreads
    /\ voice' = IF voice.dictation_running
                THEN [voice EXCEPT !.ret[c] = "False"]
                ELSE [voice EXCEPT !.pc[c] = "start_set", !.ret[c] = NULL]
    /\ UNCHANGED << state, db, last, hist, clock, app >>

\* self.dictation_running = True
StartSet(c) ==
    /\ voice.pc[c] = "start_set"
    /\ voice' = [voice EXCEPT !.dictation_running = TRUE, !.pc[c] = "start_clear"]
    /\ UNCHANGED << state, db, last, hist, clock, app >>

\* self.dictation_text = []
StartClear(c) ==
    /\ voice.pc[c] = "start_clear"
    /\ voice' = [voice EXCEPT !.dictation_text = << >>, !.pc[c] = "start_thread"]
    /\ UNCHANGED << state, db, last, hist, clock, app >>

\* self._dictation_thread = Thread(...); .start(); return True
StartThread(c) ==
    /\ voice.pc[c] = "start_thread"
    /\ voice' = [voice EXCEPT !.threads = @ \cup {voice.created + 1},
                              !.created = @ + 1,
                              !.pc[c] = "idle", !.ret[c] = "True"]
    /\ UNCHANGED << state, db, last, hist, clock, app >>

\* _dictation_loop: while self.dictation_running: ... dictation_text.append(text)
Capture(t) ==
    /\ t \in voice.threads
    /\ voice.dictation_running
    /\ Len(voice.dictation_text) < MaxWords
    /\ voice' = [voice EXCEPT !.dictation_text = Append(@, t)]
    /\ UNCHANGED << state, db, last, hist, clock, app >>

\* the loop sees dictation_running false and the thread ends
CaptureEnds(t) ==
    /\ t \in voice.threads
    /\ ~voice.dictation_running
    /\ voice' = [voice EXCEPT !.threads = @ \ {t}]
    /\ UNCHANGED << state, db, last, hist, clock, app >>

\* the audio stream raises: except Exception: self.dictation_running = False
CaptureFails(t) ==
    /\ t \in voice.threads
    /\ voice' = [voice EXCEPT !.threads = @ \ {t}, !.dictation_running = FALSE]
    /\ UNCHANGED << state, db, last, hist, clock, app >>

\* stop_dictation: if not self.dictation_running: return ""
StopCheck(c) ==
    /\ voice.pc[c] = "idle"
    /\ voice' = IF voice.dictation_running
                THEN [voice EXCEPT !.pc[c] = "stop_clear", !.ret[c] = NULL]
                ELSE [voice EXCEPT !.ret[c] = ""]
    /\ UNCHANGED << state, db, last, hist, clock, app >>

\* self.dictation_running = False
StopClear(c) ==
    /\ voice.pc[c] = "stop_clear"
    /\ voice' = [voice EXCEPT !.dictation_running = FALSE, !.pc[c] = "stop_join"]
    /\ UNCHANGED << state, db, last, hist, clock, app >>

\* join(timeout=2) returns when the thread has ended or the two seconds have
\* passed; then the text is joined and returned
StopJoin(c) ==
    /\ voice.pc[c] = "stop_join"
    /\ voice' = [voice EXCEPT !.pc[c] = "idle",
                              !.ret[c] = IF voice.dictation_text = << >> THEN ""
                                         ELSE "text"]
    /\ UNCHANGED << state, db, last, hist, clock, app >>

NextVoice ==
    \/ \E c \in Callers : StartCheck(c)
    \/ \E c \in Callers : StartSet(c)
    \/ \E c \in Callers : StartClear(c)
    \/ \E c \in Callers : StartThread(c)
    \/ \E t \in 1..MaxThreads : Capture(t)
    \/ \E t \in 1..MaxThreads : CaptureEnds(t)
    \/ \E t \in 1..MaxThreads : CaptureFails(t)
    \/ \E c \in Callers : StopCheck(c)
    \/ \E c \in Callers : StopClear(c)
    \/ \E c \in Callers : StopJoin(c)

----------------------------------------------------------------------------
(* What the collaborators may answer in a turn *)

Around(o) == << Prose, Obj(o), Prose >>     \* prose or fences around the object

\* completions from which no JSON object comes out
Unparseable == { << >>, << Prose >>, << Prose, BadObj >> }

RouteTo(agent) == Around([target_agent |-> agent])

RouteTexts ==
    { RouteTo("generic_query_handler"), RouteTo("appointment_manager"),
      RouteTo("sql_agent"), << Obj(<< >>) >> }

GenericTexts ==
    Unparseable \cup { Around([response |-> "Hello!", action |-> "none"]) }

NameTexts ==
    Unparseable \cup
    { Around([has_name |-> "True", first_name |-> "Rohit", last_name |-> "Sharma"]),
      Around([has_name |-> "True", first_name |-> "priya ", last_name |-> "Verma"]),
      Around([has_name |-> "True", first_name |-> "Rohit", last_name |-> NULL]),
      Around([has_name |-> "False", first_name |-> NULL, last_name |-> NULL]) }

DataOptions ==
    { JNone,
      EmptyDict,
      Dict([phone_no |-> "98765"]),
      Dict([phone_no |-> "98765", age |-> "35", gender |-> "male"]),
      Dict([phone_no |-> "98765", age |-> "0", gender |-> "male"]),
      Dict([appointment_date |-> "2025-11-15", appointment_time |-> "14:30",
            appointment_reason |-> "cleaning"]),
      Dict([first_name |-> NULL, phone_no |-> NULL, client_id |-> NULL,
            appointment_date |-> NULL, client_checked |-> NULL]),
      Dict([client_id |-> "7"]),
      Dict([client_checked |-> "False"]),
      Dict([conversation_stage |-> "booking"]),
      Dict([phone_no |-> "98765", age |-> "35", gender |-> "male",
            client_checked |-> "False"]),
      Dict([reset |-> "x"]),
      Dict([to_dict |-> "x"]),
      Dict([update_from_dict |-> "x", last_name |-> ""]),
      Dict([has_complete_name |-> "x"]),
      Dict([has_complete_client_info |-> "x", has_complete_appointment_info |-> "x"]) }

Call(function, params) == Dict([function |-> function, params |-> Dict(params)])

CallLookup == Call("check_client_exists", [first_name |-> "Priya", last_name |-> "Verma"])
CallAppointments == Call("get_client_appointments", [client_id |-> "1"])
CallCreateClient ==
    Call("create_client", [first_name |-> "Priya", last_name |-> "Verma", email |-> "",
                           phone_no |-> "98765", age |-> "28", gender |-> "female"])
CallCreateAppointment ==
    Call("create_appointment", [client_id |-> "1", appointment_date |-> "2025-11-15",
                                appointment_time |-> "14:30", reason |-> "cleaning"])
\* a booking call without a date, and one whose client_id is null
CallCreateNoDate ==
    Call("create_appointment", [client_id |-> "1", appointment_time |-> "14:30",
                                reason |-> "cleaning"])
CallCreateNoClient ==
    Call("create_appointment", [client_id |-> NULL, appointment_date |-> "2025-11-15",
                                appointment_time |-> "14:30", reason |-> "cleaning"])

\* <<action, function_call>>
CallOptions ==
    { << "collect_info", JNone >>,
      << "check_client", CallLookup >>,
      << "check_appointments", CallAppointments >>,
      << "create_client", CallCreateClient >>,
      << "create_appointment", CallCreateAppointment >>,
      << "create_appointment", CallCreateNoDate >>,
      << "create_appointment", CallCreateNoClient >>,
      << "collect_info", CallCreateAppointment >>,
      << "check_appointments", CallCreateAppointment >>,
      << "create_appointment", CallAppointments >> }

SlotObject(dc, c) ==
    [ action |-> c[1], response |-> "llm text", data_collected |-> dc,
      function_call |-> c[2] ]

\* every data_collected without a call, every call with four of them
SlotTexts ==
    Unparseable
    \cup { << Obj(<< >>) >> }
    \cup { Around(SlotObject(dc, << "collect_info", JNone >>)) : dc \in DataOptions }
    \cup { Around(SlotObject(dc, c)) :
             dc \in { EmptyDict,
                      Dict([appointment_date |-> "2025-11-15", appointment_time |-> "14:30",
                            appointment_reason |-> "cleaning"]),
                      Dict([client_id |-> "7"]),
                      Dict([client_checked |-> "False"]) },
             c \in CallOptions }

----------------------------------------------------------------------------
(* History of a session, kept for the properties only *)

NameKey(first_name, last_name) == << LowerTrim(first_name), LowerTrim(last_name) >>

NoHistory ==
    [ looked1 |-> {}, looked2 |-> {},       \* names looked up once / more than once
      checked1 |-> {}, checked2 |-> {},     \* names for which client_checked went
                                            \* from false to true once / more than once
      inserted1 |-> {}, inserted2 |-> {},   \* names inserted once / more than once
      matched |-> {},                       \* names an existence lookup matched
      reinserted |-> {},                    \* names inserted after they matched
      granted |-> FALSE ]                   \* a lookup matched or a create returned
                                            \* the identifier of its row

Once(h1, h2, k) == h1 \cup {k}
Twice(h1, h2, k) == IF k \in h1 THEN h2 \cup {k} ELSE h2

Note(h, o) ==
    LET k == NameKey(o.first_name, o.last_name)
    IN  IF o.op = "lookup"
        THEN [h EXCEPT !.looked1 = Once(h.looked1, h.looked2, k),
                       !.looked2 = Twice(h.looked1, h.looked2, k),
                       !.matched = IF o.out = "match" THEN @ \cup {k} ELSE @,
                       !.granted = @ \/ o.out = "match"]
        ELSE IF o.op = "insert_client" /\ o.out = "ok"
        THEN [h EXCEPT !.inserted1 = Once(h.inserted1, h.inserted2, k),
                       !.inserted2 = Twice(h.inserted1, h.inserted2, k),
                       !.reinserted = IF k \in h.matched THEN @ \cup {k} ELSE @]
        ELSE IF o.op = "lookup_created" /\ o.out = "match"
        THEN [h EXCEPT !.granted = TRUE]
        ELSE h

NoteAll(h, ops) ==
    LET F[i \in 0..Len(ops)] == IF i = 0 THEN h ELSE Note(F[i-1], ops[i])
    IN  F[Len(ops)]

\* the history after a turn that took the session from s to r.state
History(h, s, r) ==
    LET h1 == NoteAll(h, r.ops)
        k  == NameKey(r.state.first_name, r.state.last_name)
    IN  IF ~Truthy(s.client_checked) /\ Truthy(r.state.client_checked)
        THEN [h1 EXCEPT !.checked1 = Once(h1.checked1, h1.checked2, k),
                        !.checked2 = Twice(h1.checked1, h1.checked2, k)]
        ELSE h1

----------------------------------------------------------------------------
(* The chat page of app.py: st.session_state and the speaking threads *)

UserText == "user text"

Message(role, content) == [ role |-> role, content |-> content ]

\* initialize_session_state and TextToSpeech.__init__: speakers are the
\* safe_speak threads that have not run yet; engine is the engine thread,
\* "none" when the voice system was not initialized, "dead" when
\* pyttsx3.init() raised in it
Page(voice_enabled, engine) ==
    [ voice_enabled |-> voice_enabled,
      messages      |-> << >>,
      speakers      |-> {},
      speak_queue   |-> << >>,
      engine        |-> engine,
      is_running    |-> engine # "none",
      saying        |-> NULL,       \* the text the engine is saying
      accepted      |-> << >>,      \* the texts put on the queue, in order
      spoken        |-> << >>,      \* the texts the engine has said, in order
      warned        |-> FALSE,      \* safe_speak printed its warning
      tts_error     |-> FALSE ]     \* the engine loop logged an error

\* TextToSpeech.speak(text): blank text is dropped, the rest is queued
IsBlank(text) == text \in { "", " " }

speak(a, text) ==
    IF IsBlank(text) THEN a
    ELSE [a EXCEPT !.speak_queue = Append(@, text), !.accepted = Append(@, text)]

\* re.sub in _engine_loop: a URL is said as "link provided"
clean_text(text) ==
    IF text = "See https://x.io now" THEN "See link provided now" ELSE text

\* an engine loop without its handler: the exception ends the thread
after_say_dies(a, failed) ==
    [a EXCEPT !.engine = IF failed THEN "dead" ELSE "idle",
              !.saying = NULL,
              !.spoken = Append(@, [text |-> a.saying, said |-> clean_text(a.saying),
                                    failed |-> failed]),
              !.tts_error = @ \/ failed]

\* engine.runAndWait() has returned, or has raised and the loop has logged the
\* error: either way the loop goes back to the queue
after_say(a, failed) ==
    [a EXCEPT !.engine = "idle",
              !.saying = NULL,
              !.spoken = Append(@, [text |-> a.saying, said |-> clean_text(a.saying),
                                    failed |-> failed]),
              !.tts_error = @ \/ failed]

Pages ==
    { Page(FALSE, "none"), Page(TRUE, "idle"), Page(TRUE, "dead") }

----------------------------------------------------------------------------
(* The program: one process_query per user utterance, reset on demand *)

Init ==
    /\ state = ConversationState
    /\ db = InitialDb
    /\ last = [ kind |-> "init", reply |-> NULL, raised |-> FALSE, ops |-> NoOps,
                merged |-> JNone ]
    /\ hist = NoHistory
    /\ clock = 0
    /\ voice = SpeechRecognizer
    /\ app = Page(FALSE, "none")

Input(route_text, generic_text, name_text, slot_text, b1, b2, cal) ==
    [ route_text |-> route_text, generic_text |-> generic_text,
      name_text |-> name_text, slot_text |-> slot_text,
      b1 |-> b1, b2 |-> b2, cal |-> cal ]

DbOps == {"lookup", "lookup_created", "insert_client", "insert_appointment",
          "select_appointments"}

Calls(ops, kinds) == Len(SelectSeq(ops, LAMBDA o : o.op \in kinds))

MayStep == clock < MaxTurns

\* receptionist.process_query(user_input), the collaborators answering as in
Turn(in) ==
    /\ MayStep
    /\ \E r \in { process_query(state, db, in) } :
          /\ state' = r.state
          /\ db' = r.db
          /\ last' = [ kind |-> "process_query", reply |-> r.reply, raised |-> r.exc,
                       ops |-> r.ops, merged |-> r.merged ]
          /\ hist' = History(hist, state, r)
    /\ clock' = clock + 1
    /\ voice' = voice
    /\ app' = app

\* the router's answer does not parse, or names no agent
TurnUnrouted ==
    \E rt \in Unparseable \cup { << Obj(<< >>) >>, RouteTo("sql_agent") } :
        Turn(Input(rt, << >>, << >>, << >>, "ok", "ok", "link"))

TurnGeneric ==
    \E gt \in GenericTexts :
        Turn(Input(RouteTo("generic_query_handler"), gt, << >>, << >>,
                   "ok", "ok", "link"))

\* appointment route while the name is incomplete: the name extractor is asked
TurnName ==
    /\ ~has_complete_name(state)
    /\ \E nt \in NameTexts, b1 \in DbBehaviours :
        Turn(Input(RouteTo("appointment_manager"), << >>, nt, << >>,
                   b1, "ok", "link"))

\* appointment route with a name that was not looked up yet
TurnCheck ==
    /\ has_complete_name(state)
    /\ ~Truthy(state.client_checked)
    /\ \E b1 \in DbBehaviours :
        Turn(Input(RouteTo("appointment_manager"), << >>, << >>, << >>,
                   b1, "ok", "link"))

\* the behaviours to enumerate for a collaborator: all of them when the turn
\* calls it, one when it does not
Answers(called, all, one) == IF called THEN all ELSE {one}

\* appointment route after the lookup: the slot collector is asked.  The
\* calls a turn makes when nothing fails are all the calls it can make.
TurnSlot ==
    /\ has_complete_name(state)
    /\ Truthy(state.client_checked)
    /\ \E st \in SlotTexts :
        LET in0 == Input(RouteTo("appointment_manager"), << >>, << >>, st,
                         "ok", "ok", "link")
        IN  \E ops0 \in { process_query(state, db, in0).ops } :
            \E b1 \in Answers(Calls(ops0, DbOps) >= 1, DbBehaviours, "ok"),
               b2 \in Answers(Calls(ops0, DbOps) >= 2, DbBehaviours, "ok"),
               cal \in Answers(Calls(ops0, {"calendar"}) >= 1, CalendarBehaviours, "link") :
                Turn([in0 EXCEPT !.b1 = b1, !.b2 = b2, !.cal = cal])

\* receptionist.reset_conversation()
\* self.state.reset() is called outside any try: when reset is hidden by an
\* instance attribute the TypeError reaches the caller and nothing is reset
Reset ==
    /\ MayStep
    /\ state' = IF Callable(state, "reset") THEN reset(state) ELSE state
    /\ db' = db
    /\ last' = [ kind |-> "reset", reply |-> NULL,
                 raised |-> ~Callable(state, "reset"), ops |-> NoOps,
                 merged |-> JNone ]
    /\ hist' = IF Callable(state, "reset") THEN NoHistory ELSE hist
    /\ clock' = clock + 1
    /\ voice' = voice
    /\ app' = app

Next ==
    \/ TurnUnrouted
    \/ TurnGeneric
    \/ TurnName
    \/ TurnCheck
    \/ TurnSlot
    \/ Reset

Spec == Init /\ [][Next]_vars

----------------------------------------------------------------------------
(* app.py: the chat page.  process_input appends the utterance and the       *)
(* reply to the chat and hands the reply to a new thread running safe_speak; *)
(* voice_utils.TextToSpeech queues the text for its engine thread.           *)

\* the reply spoken in the calling thread, with no handler around it
speak_in_foreground(a, id, text) ==
    { [ app |-> a, exc |-> FALSE ], [ app |-> a, exc |-> TRUE ] }

\* threading.Thread(target=safe_speak, args=(bot_response,), daemon=True).start()
speak_in_background(a, id, text) ==
    { [ app |-> [a EXCEPT !.speakers = @ \cup { [id |-> id, text |-> text] }],
        exc |-> FALSE ] }

AppInputs ==
    { Input(RouteTo("generic_query_handler"), gt, << >>, << >>, "ok", "ok", "link") :
        gt \in GenericTexts }
    \cup { Input(<< Prose >>, << >>, << >>, << >>, "ok", "ok", "link") }
    \cup { Input(RouteTo("appointment_manager"), << >>, nt, << >>, b1, "ok", "link") :
             nt \in { Around([has_name |-> "True", first_name |-> "priya ",
                              last_name |-> "Verma"]) },
             b1 \in DbBehaviours }

\* process_input(user_input) for an utterance that is not blank
ProcessInput ==
    /\ MayStep
    /\ \E in \in AppInputs :
       \E r \in { process_query(state, db, in) } :
          LET a1 == [app EXCEPT !.messages = Append(@, Message("user", UserText))]
              a2 == [a1 EXCEPT !.messages = Append(@, Message("bot", r.reply))]
          IN  /\ state' = r.state
              /\ db' = r.db
              /\ hist' = History(hist, state, r)
              /\ IF r.exc
                 THEN /\ app' = a1
                      /\ last' = [ kind |-> "process_input", reply |-> r.reply,
                                   raised |-> TRUE, ops |-> r.ops, merged |-> r.merged ]
                 ELSE \E sp \in speak_in_background(a2, clock, r.reply) :
                      /\ app' = sp.app
                      /\ last' = [ kind |-> "process_input", reply |-> r.reply,
                                   raised |-> sp.exc, ops |-> r.ops,
                                   merged |-> r.merged ]
    /\ clock' = clock + 1
    /\ voice' = voice

\* app.reset_conversation(): the chat is emptied, then the session is reset
ResetConversation ==
    /\ MayStep
    /\ app' = [app EXCEPT !.messages = << >>]
    /\ state' = IF Callable(state, "reset") THEN reset(state) ELSE state
    /\ db' = db
    /\ last' = [ kind |-> "reset", reply |-> NULL,
                 raised |-> ~Callable(state, "reset"), ops |-> NoOps,
                 merged |-> JNone ]
    /\ hist' = IF Callable(state, "reset") THEN NoHistory ELSE hist
    /\ clock' = clock + 1
    /\ voice' = voice

\* safe_speak(text) in its own thread.  Reading st.session_state outside the
\* script thread may raise; speak(text) raises on a text that is no string;
\* TextToSpeech.speak drops blank text and queues the rest.  Every exception
\* ends in safe_speak's except clause.
SafeSpeak(t) ==
    /\ t \in app.speakers
    /\ \E read \in { "value", "raise" } :
         LET a1 == [app EXCEPT !.speakers = @ \ {t}]
         IN  app' = IF read = "raise" THEN [a1 EXCEPT !.warned = TRUE]
                    ELSE IF ~app.voice_enabled THEN a1
                    ELSE IF t.text = NULL THEN [a1 EXCEPT !.warned = TRUE]
                    ELSE speak(a1, t.text)
    /\ UNCHANGED << state, db, last, hist, clock, voice >>

\* _engine_loop: text = self.speak_queue.get(timeout=0.5); engine.say(...)
EngineSays ==
    /\ app.engine = "idle"
    /\ app.speak_queue # << >>
    /\ app' = [app EXCEPT !.engine = "saying", !.saying = Head(app.speak_queue),
                          !.speak_queue = Tail(@)]
    /\ UNCHANGED << state, db, last, hist, clock, voice >>

\* engine.runAndWait() returns, or raises and the loop logs the error
EngineDone ==
    /\ app.engine = "saying"
    /\ \E failed \in BOOLEAN : app' = after_say(app, failed)
    /\ UNCHANGED << state, db, last, hist, clock, voice >>

InitApp ==
    /\ state = ConversationState
    /\ db = InitialDb
    /\ last = [ kind |-> "init", reply |-> NULL, raised |-> FALSE, ops |-> NoOps,
                merged |-> JNone ]
    /\ hist = NoHistory
    /\ clock = 0
    /\ voice = SpeechRecognizer
    /\ app \in Pages

NextApp ==
    \/ ProcessInput
    \/ ResetConversation
    \/ \E t \in app.speakers : SafeSpeak(t)
    \/ EngineSays
    \/ EngineDone

SpecApp == InitApp /\ [][NextApp]_vars

----------------------------------------------------------------------------
(* voice_utils.TextToSpeech on its own: callers of speak, the engine thread  *)
(* and stop()                                                                *)

SpeakTexts == { "", " ", "Hello!", "See https://x.io now" }

InitTts ==
    /\ state = ConversationState
    /\ db = InitialDb
    /\ last = [ kind |-> "init", reply |-> NULL, raised |-> FALSE, ops |-> NoOps,
                merged |-> JNone ]
    /\ hist = NoHistory
    /\ clock = 0
    /\ voice = SpeechRecognizer
    /\ app \in { Page(TRUE, "idle"), Page(TRUE, "dead") }

\* a call of TextToSpeech.speak(text)
Speak ==
    /\ clock < MaxSpeaks
    /\ \E text \in SpeakTexts : app' = speak(app, text)
    /\ clock' = clock + 1
    /\ UNCHANGED << state, db, last, hist, voice >>

\* TextToSpeech.stop(): self.is_running = False
Stop ==
    /\ app.is_running
    /\ app' = [app EXCEPT !.is_running = FALSE]
    /\ UNCHANGED << state, db, last, hist, clock, voice >>

\* _engine_loop: while self.is_running is false at the top of the loop
EngineExits ==
    /\ app.engine = "idle"
    /\ ~app.is_running
    /\ app' = [app EXCEPT !.engine = "stopped"]
    /\ UNCHANGED << state, db, last, hist, clock, voice >>

NextTts ==
    \/ Speak
    \/ Stop
    \/ EngineSays
    \/ EngineDone
    \/ EngineExits

\* the engine thread keeps running: its steps are taken when they can be
SpecTts ==
    /\ InitTts
    /\ [][NextTts]_vars
    /\ WF_vars(EngineSays)
    /\ WF_vars(EngineDone)

----------------------------------------------------------------------------
(* update_from_dict on its own: any session fields, any sequence of dicts *)

MergeValues == { NULL, "0", "Rohit" }

MergeKeys == { "first_name", "age", "nickname" }    \* nickname is no attribute

MergeDicts == UNION { [K -> MergeValues] : K \in SUBSET MergeKeys }

InitMerge ==
    /\ state \in { [ConversationState EXCEPT !.first_name = a, !.age = b] :
                     a \in MergeValues, b \in MergeValues }
    /\ db = InitialDb
    /\ last = [ kind |-> "init", reply |-> NULL, raised |-> FALSE, ops |-> NoOps,
                merged |-> JNone ]
    /\ hist = NoHistory
    /\ clock = 0
    /\ voice = SpeechRecognizer
    /\ app = Page(FALSE, "none")

\* state.update_from_dict(data)
Merge ==
    \E data \in MergeDicts :
        /\ state' = update_from_dict(state, data)
        /\ last' = [ kind |-> "merge", data |-> data ]
        /\ UNCHANGED << db, hist, clock, voice, app >>

NextMerge == Merge

SpecMerge == InitMerge /\ [][NextMerge]_vars

SpecVoice == Init /\ [][NextVoice]_vars

----------------------------------------------------------------------------
(* parse_json_from_text on its own: every completion of up to MaxPieces     *)
(* pieces is parsed once                                                    *)

Pieces ==
    { Prose, Obj([target_agent |-> "appointment_manager"]), Obj([action |-> "none"]),
      BadObj, OpenBrace, CloseBrace }

Completions == UNION { [1..n -> Pieces] : n \in 0..MaxPieces }

InitParse ==
    /\ state = ConversationState
    /\ db = InitialDb
    /\ last \in { [ kind |-> "completion", text |-> text, parsed |-> JNone ] :
                    text \in Completions }
    /\ hist = NoHistory
    /\ clock = 0
    /\ voice = SpeechRecognizer
    /\ app = Page(FALSE, "none")

Parse ==
    /\ last.kind = "completion"
    /\ last' = [ kind |-> "parse_json_from_text", text |-> last.text,
                 parsed |-> parse_json_from_text(last.text) ]
    /\ UNCHANGED << state, db, hist, clock, voice, app >>

NextParse == Parse

SpecParse == InitParse /\ [][NextParse]_vars

----------------------------------------------------------------------------
(* has_complete_client_info on its own: every combination of client fields *)

InfoSessions ==
    { [ConversationState EXCEPT !.first_name = fn, !.last_name = ln, !.phone_no = ph,
                                !.age = ag, !.gender = ge, !.email = em] :
        fn \in { NULL, "", "Rohit" }, ln \in { NULL, "Sharma" },
        ph \in { NULL, "98765" }, ag \in { NULL, "0", "35" },
        ge \in { NULL, "male" }, em \in { NULL, "", "r@example.com" } }

InitInfo ==
    /\ state \in InfoSessions
    /\ db = InitialDb
    /\ last = [ kind |-> "session", complete |-> FALSE ]
    /\ hist = NoHistory
    /\ clock = 0
    /\ voice = SpeechRecognizer
    /\ app = Page(FALSE, "none")

\* state.has_complete_client_info()
AskInfo ==
    /\ last.kind = "session"
    /\ last' = [ kind |-> "has_complete_client_info",
                 complete |-> has_complete_client_info(state) ]
    /\ UNCHANGED << state, db, hist, clock, voice, app >>

NextInfo == AskInfo

SpecInfo == InitInfo /\ [][NextInfo]_vars

----------------------------------------------------------------------------
(* Properties *)

IsTurn == last.kind = "process_query"

\* positions of the last turn's calls of the given kinds
LastOps(kinds) == IF IsTurn THEN {i \in 1..Len(last.ops) : last.ops[i].op \in kinds}
                  ELSE {}

SlotOps == {"llm_slot_new", "llm_slot_existing"}

\* C1: process_query never raises to its caller, whatever the LLM, the store
\* and the calendar answer: every call ends by returning a reply.
C1_NeverRaises == IsTurn => last.raised = FALSE

\* a turn in which the name extractor gave no JSON object: the AttributeError
\* was caught and answered
C1_Witness ==
    /\ IsTurn
    /\ \E i \in LastOps({"llm_name"}) : last.ops[i].out = "nojson"
    /\ last.raised = FALSE
    /\ last.reply = "I apologize, something went wrong"

C3_UnparseableLeavesState ==
    [][ (last'.kind = "process_query"
         /\ \E i \in 1..Len(last'.ops) : last'.ops[i].out = "nojson")
            => (last'.raised = FALSE /\ state' = state) ]_vars

\* the slot collector gave no JSON object in a session that holds a name
C3_Witness ==
    /\ \E i \in LastOps(SlotOps) : last.ops[i].out = "nojson"
    /\ has_complete_name(state)
    /\ last.raised = FALSE

\* C4: when the name extractor reports a first and a last name, the same turn
\* stores the name, makes exactly one existence lookup (for that name) and
\* sets client_checked; no match: stage new_client_collecting_info and the
\* reply asks for the phone number; match: the row's fields are merged, the
\* stage is existing_client and the reply is the welcome-back message.
C4_NameThenLookupSameTurn ==
    \A i \in LastOps({"llm_name"}) :
        LET n == last.ops[i]
        IN  (Truthy(n.first_name) /\ Truthy(n.last_name)) =>
              /\ Cardinality(LastOps(DbOps)) = 1
              /\ state.client_checked = "True"
              /\ \A j \in LastOps(DbOps) :
                    LET lk == last.ops[j]
                    IN  /\ lk.op = "lookup"
                        /\ lk.first_name = n.first_name
                        /\ lk.last_name = n.last_name
                        /\ lk.out = "nomatch" =>
                              /\ state.first_name = n.first_name
                              /\ state.last_name = n.last_name
                              /\ state.conversation_stage = "new_client_collecting_info"
                              /\ last.reply = "Nice to meet you ... provide your phone number"
                        /\ lk.out = "match" =>
                              /\ state.conversation_stage = "existing_client"
                              /\ last.reply = "Welcome back"
                              /\ \E r \in 1..Len(db.clients) :
                                    LET row == db.clients[r]
                                    IN  /\ row.client_id = lk.client_id
                                        /\ NameKey(row.first_name, row.last_name)
                                             = NameKey(n.first_name, n.last_name)
                                        /\ \A k \in DOMAIN row :
                                              row[k] # NULL => state[k] = row[k]

\* C5: within a session client_checked goes from false to true once per name
\* and an existence lookup is made at most once for a name.
C5_OneLookupPerName == hist.looked2 = {} /\ hist.checked2 = {}

AllNonNull(s) ==
    /\ s.first_name # NULL
    /\ s.last_name # NULL
    /\ s.phone_no # NULL
    /\ s.age # NULL
    /\ s.gender # NULL

\* C6: a new-client turn whose merged state has every client field non-null
\* and no client_id attempts a client create; when the create returns the
\* identifier client_id is set and the stage is existing_client, otherwise
\* client_id stays null, the stage is unchanged and the reply asks to verify.
C6_CompleteInfoCreates ==
    (/\ LastOps({"llm_slot_new"}) # {}
     /\ "client_id" \in DOMAIN last.merged
     /\ AllNonNull(last.merged)
     /\ last.merged.client_id = NULL)
    => /\ LastOps({"insert_client"}) # {}
       /\ IF \E j \in LastOps({"lookup_created"}) : last.ops[j].out = "match"
          THEN /\ state.client_id # NULL
               /\ state.conversation_stage = "existing_client"
          ELSE /\ state.client_id = NULL
               /\ state.conversation_stage = last.merged.conversation_stage
               /\ last.reply = "I had trouble creating your profile"

\* C7: a session inserts at most one client record per name, and none for a
\* name whose existence lookup matched.
C7_OneInsertPerName == hist.inserted2 = {} /\ hist.reinserted = {}

\* C8: client_id is non-null exactly when a lookup matched or a create
\* returned the identifier of its row earlier in the session.
C8_ClientIdIffGranted == (state.client_id # NULL) <=> hist.granted

\* C9: a turn that inserted an appointment ends with the appointment fields
\* null and first_name, last_name, client_id as they were before the booking.
C9_BookingClearsAppointment ==
    (\E i \in LastOps({"insert_appointment"}) : last.ops[i].out = "ok")
    => /\ state.appointment_date = NULL
       /\ state.appointment_time = NULL
       /\ state.appointment_reason = NULL
       /\ state.first_name = last.merged.first_name
       /\ state.last_name = last.merged.last_name
       /\ state.client_id = last.merged.client_id

\* C10: no appointment is inserted while the session's client_id is null:
\* every appointment insert follows a lookup match or a successful create.
C10_AppointmentAfterClient ==
    (\E i \in LastOps({"insert_appointment"}) : last.ops[i].out = "ok")
    => /\ last.merged.client_id # NULL
       /\ hist.granted

\* C11: a turn whose routing completion holds no JSON object replies by
\* asking to rephrase, asks neither the generic responder nor the appointment
\* flow, touches neither the store nor the calendar, and leaves the session
\* state unchanged.
C11_UnroutedAsksRephrase ==
    [][ (/\ last'.kind = "process_query"
         /\ Len(last'.ops) >= 1
         /\ last'.ops[1].op = "llm_router"
         /\ last'.ops[1].out = "nojson")
            => /\ last'.reply = "I'm having trouble understanding. rephrase"
               /\ last'.raised = FALSE
               /\ Len(last'.ops) = 1
               /\ state' = state
               /\ db' = db ]_vars

\* the routing of a turn did not parse in a session that already holds a name
C11_Witness ==
    /\ IsTurn
    /\ Len(last.ops) = 1
    /\ last.ops[1].op = "llm_router"
    /\ last.ops[1].out = "nojson"
    /\ last.reply = "I'm having trouble understanding. rephrase"
    /\ state.first_name # NULL

\* the replies _format_appointment_creation_response can give
BookingReplies ==
    { "Perfect! Your appointment is confirmed",
      "Perfect! Your appointment is confirmed + calendar link",
      "I had trouble booking your appointment" }

\* C12: when the appointment insert ran and the calendar collaborator gave no
\* link or raised, the booking reply is the confirmation without a calendar
\* link, not the trouble-booking message.
C12_CalendarFailureStillConfirms ==
    (/\ \E i \in LastOps({"insert_appointment"}) : last.ops[i].out = "ok"
     /\ \E i \in LastOps({"calendar"}) : last.ops[i].out = "error"
     /\ last.reply \in BookingReplies)
    => last.reply = "Perfect! Your appointment is confirmed"

\* C13: when the store fails during the existence lookup that follows a name,
\* the reply is the trouble-checking-records message: the person is neither
\* welcomed back nor greeted as a new client.
C13_LookupFailureReported ==
    (/\ LastOps(SlotOps) = {}
     /\ \E i \in LastOps({"lookup"}) : last.ops[i].out = "error")
    => last.reply = "I had trouble checking our records"

\* the replies _format_appointments_response can give
AppointmentsReplies ==
    { "I couldn't retrieve your appointments",
      "You don't have any appointments scheduled",
      "Here are your appointments" }

\* a retrieval of the last turn ran and found no row
RetrievedNone ==
    \E i \in LastOps({"select_appointments"}) :
        /\ last.ops[i].out = "ok"
        /\ SelectAppointments(db, last.ops[i].client_id) = << >>

\* a retrieval for a client without appointments is answered with the
\* no-appointments message
C14_ZeroRowsAnswered ==
    (RetrievedNone /\ last.reply \in AppointmentsReplies)
    => last.reply = "You don't have any appointments scheduled"

\* C14: a retrieval for a client without appointments is answered with the
\* no-appointments message, and the could-not-retrieve reply is given only in
\* a turn whose retrieval failed.
C14_ZeroRowsIsNoError ==
    /\ C14_ZeroRowsAnswered
    /\ last.reply = "I couldn't retrieve your appointments"
          => \E i \in LastOps({"select_appointments"}) : last.ops[i].out = "error"

\* C15: after reset_conversation() the snapshot state.to_dict() can be taken
\* and equals the snapshot of a freshly constructed session.
C15_ResetRestoresDefaults ==
    last.kind = "reset"
    => /\ last.raised = FALSE
       /\ Callable(state, "to_dict")
       /\ to_dict(state) = to_dict(ConversationState)

\* C16: speech capture excludes itself, whatever the interleaving of the
\* callers of start_dictation: there is never a second capture thread, and
\* the text captured so far is not cleared while a capture thread is alive.
C16_CaptureExclusive ==
    [][ /\ Cardinality(voice'.threads) <= 1
        /\ (voice.dictation_text # << >> /\ voice'.dictation_text = << >>)
              => voice.threads = {} ]_vars

\* C17: speaking a reply never blocks turn processing and never surfaces a
\* failure: process_input can run in every state, whatever the speaking
\* threads and the engine are doing; it returns without an exception, having
\* added the utterance and the reply to the chat and nothing else; and no
\* step of a speaking thread or of the engine touches the chat or the caller.
C17_SpeechNeverBlocksNorSurfaces ==
    /\ [](MayStep => ENABLED ProcessInput)
    /\ [][ /\ (clock' = clock + 1 /\ last'.kind = "process_input")
                => /\ last'.raised = FALSE
                   /\ app'.messages = app.messages \o << Message("user", UserText),
                                                         Message("bot", last'.reply) >>
           /\ clock' = clock => (app'.messages = app.messages /\ last' = last) ]_vars

\* an utterance was processed while the engine was still saying an earlier
\* reply, after a failure of the engine on a reply before that
C17_Witness ==
    /\ last.kind = "process_input"
    /\ last.raised = FALSE
    /\ app.engine = "saying"
    /\ app.tts_error
    /\ app.speakers # {}
    /\ Len(app.messages) >= 4

ObjectsIn(text) == { i \in 1..Len(text) : text[i].t = "object" }

\* C18: whenever the text contains a well-formed JSON object,
\* parse_json_from_text returns the first one, whatever surrounds it
C18_FirstObjectReturned ==
    (last.kind = "parse_json_from_text" /\ ObjectsIn(last.text) # {})
    => last.parsed = Dict(last.text[Min(ObjectsIn(last.text))].v)

\* what the code does: the object comes out when no other brace follows
\* the first opening brace
C18_LoneObjectReturned ==
    ( /\ last.kind = "parse_json_from_text"
      /\ ObjectsIn(last.text) # {}
      /\ \A i \in 1..Len(last.text) :
            (HasOpen(last.text[i]) \/ (HasClose(last.text[i]) /\ i > Min(ObjectsIn(last.text))))
            => i = Min(ObjectsIn(last.text)) )
    => last.parsed = Dict(last.text[Min(ObjectsIn(last.text))].v)

\* C19: a turn routed to the general handler changes no field of the session
\* and performs no persistence or calendar operation, whatever the stage of
\* the conversation: after the router and the generic responder were asked,
\* nothing else is called, and the session and the store are as before.
C19_GenericTurnIsReadOnly ==
    [][ (/\ last'.kind = "process_query"
         /\ Len(last'.ops) >= 2
         /\ last'.ops[2].op = "llm_generic")
            => /\ state' = state
               /\ db' = db
               /\ Len(last'.ops) = 2 ]_vars

\* a general question asked after the caller was looked up and found
C19_Witness ==
    /\ IsTurn
    /\ Len(last.ops) = 2
    /\ last.ops[2].op = "llm_generic"
    /\ last.reply = "Hello!"
    /\ Truthy(state.client_checked)
    /\ Truthy(state.client_id)
    /\ state.conversation_stage # "greeting"

\* C20: an appointment turn whose name extraction fails (the completion does
\* not parse, or it gives no first name or no last name) re-asks for the full
\* name, stores nothing into first_name or last_name and makes no lookup.
C20_FailedExtractionReasks ==
    [][ \A i \in 1..Len(last'.ops) :
          ( /\ last'.kind = "process_query"
            /\ last'.ops[i].op = "llm_name"
            /\ \/ last'.ops[i].out = "nojson"
               \/ last'.ops[i].first_name = NULL
               \/ last'.ops[i].last_name = NULL )
          => /\ last'.reply = "could you please provide your full name?"
             /\ state'.first_name = state.first_name
             /\ state'.last_name = state.last_name
             /\ \A j \in 1..Len(last'.ops) : last'.ops[j].op \notin DbOps ]_vars

\* what the code does when the extractor answers has_name false
C20_NoNameReasks ==
    \A i \in LastOps({"llm_name"}) :
        (last.ops[i].out = "json" /\ last.ops[i].first_name = NULL
                                 /\ last.ops[i].last_name = NULL)
        => /\ last.reply = "could you please provide your full name?"
           /\ LastOps(DbOps) = {}

\* C21: once client_checked is true it stays true until reset(): no turn,
\* whatever the slot collector or a lookup hands to update_from_dict, sets it
\* back to false.
C21_CheckedStaysChecked ==
    [][ (Truthy(state.client_checked) /\ last'.kind = "process_query")
            => Truthy(state'.client_checked) ]_vars

\* C22: has_complete_client_info() is true exactly when first_name,
\* last_name, phone_no, age and gender are all non-null, age 0 included,
\* whatever email is.
C22_CompleteIffAllNonNull ==
    last.kind = "has_complete_client_info" => (last.complete <=> AllNonNull(state))

\* what the code tests: the five fields are truthy
C22_CompleteIffAllTruthy ==
    last.kind = "has_complete_client_info"
    => (last.complete <=> \A k \in { "first_name", "last_name", "phone_no", "age", "gender" } :
                            Truthy(state[k]))

\* the replies that confirm a booking
Confirmations ==
    { "Perfect! Your appointment is confirmed",
      "Perfect! Your appointment is confirmed + calendar link" }

\* C23: in an appointment turn of a session that holds a client_id, when the
\* session after the merge of the collected fields has date, time and reason,
\* an appointment create is executed in that turn and, when its insert ran,
\* the reply is the confirmation.
C23_CompleteAppointmentBooks ==
    [][ ( /\ last'.kind = "process_query"
          /\ state.client_id # NULL
          /\ \E i \in 1..Len(last'.ops) :
                last'.ops[i].op \in SlotOps /\ last'.ops[i].out = "json"
          /\ "client_id" \in DOMAIN last'.merged
          /\ has_complete_appointment_info(last'.merged) )
        => /\ \E j \in 1..Len(last'.ops) : last'.ops[j].op = "insert_appointment"
           /\ (\E j \in 1..Len(last'.ops) :
                  last'.ops[j].op = "insert_appointment" /\ last'.ops[j].out = "ok")
              => last'.reply \in Confirmations ]_vars

\* the appointment rows a step wrote
NewAppointments(before, after) ==
    { after.appointments[i] : i \in Len(before.appointments) + 1 .. Len(after.appointments) }

\* C24: an appointment insert is executed only with a non-null client_id,
\* date, time and reason: every row a turn writes has the four of them, and a
\* booking call whose client_id is null writes no row and is not confirmed.
C24_InsertNeedsAllFour ==
    [][ last'.kind = "process_query"
        => /\ \A row \in NewAppointments(db, db') :
                 /\ row.client_id # NULL
                 /\ row.appointment_date # NULL
                 /\ row.appointment_time # NULL
                 /\ row.reason # NULL
           /\ \A j \in 1..Len(last'.ops) :
                 (last'.ops[j].op = "insert_appointment" /\ last'.ops[j].client_id = NULL)
                 => /\ db'.appointments = db.appointments
                    /\ last'.reply \notin Confirmations ]_vars

\* what the code does: a row is written only with an integer client_id
C24_InsertNeedsClientId ==
    [][ last'.kind = "process_query"
        => \A row \in NewAppointments(db, db') : IsInt(row.client_id) ]_vars

\* C25: after a successful client create (the insert ran and the read-back
\* found a row) the session's client_id is the identifier of the row that
\* create inserted, also when the store already holds a row of that name.
C25_ClientIdIsInsertedRow ==
    [][ \A j \in 1..Len(last'.ops) :
          ( /\ last'.kind = "process_query"
            /\ last'.ops[j].op = "insert_client"
            /\ last'.ops[j].out = "ok"
            /\ \E k \in 1..Len(last'.ops) :
                  last'.ops[k].op = "lookup_created" /\ last'.ops[k].out = "match" )
          => state'.client_id = last'.ops[j].client_id ]_vars

\* what the code does: the session takes the identifier of the row inserted
\* when a new-client turn creates a client whose name the store did not hold
C25_FreshNameGetsItsRow ==
    [][ \A j \in 1..Len(last'.ops) :
          ( /\ last'.kind = "process_query"
            /\ \E i \in 1..Len(last'.ops) : last'.ops[i].op = "llm_slot_new"
            /\ last'.ops[j].op = "insert_client"
            /\ last'.ops[j].out = "ok"
            /\ SelectClient(db, last'.ops[j].first_name, last'.ops[j].last_name) = << >>
            /\ \E k \in 1..Len(last'.ops) :
                  last'.ops[k].op = "lookup_created" /\ last'.ops[k].out = "match" )
          => state'.client_id = last'.ops[j].client_id ]_vars

\* the stages the code assigns
Stages == { "initial", "new_client_collecting_info", "existing_client" }

\* C26: in every reachable state conversation_stage is one of initial,
\* new_client_collecting_info and existing_client, and it is existing_client
\* exactly when client_id is non-null.
C26_StageMatchesClientId ==
    /\ state.conversation_stage \in Stages
    /\ state.conversation_stage = "existing_client" <=> state.client_id # NULL

\* C27: every client insert is preceded in the same session by an existence
\* lookup for the name it inserts, and no client insert is executed while
\* client_checked is false.
C27_LookupBeforeCreate ==
    [][ \A j \in 1..Len(last'.ops) :
          (last'.kind = "process_query" /\ last'.ops[j].op = "insert_client")
          => /\ \/ NameKey(last'.ops[j].first_name, last'.ops[j].last_name)
                      \in hist.looked1
                \/ \E i \in 1..(j - 1) :
                      /\ last'.ops[i].op = "lookup"
                      /\ NameKey(last'.ops[i].first_name, last'.ops[i].last_name)
                           = NameKey(last'.ops[j].first_name, last'.ops[j].last_name)
             /\ "client_checked" \in DOMAIN last'.merged
                   => Truthy(last'.merged.client_checked) ]_vars

\* the operations that take a client_id from the slot collector's call
ClientIdOps == { "select_appointments", "insert_appointment" }

\* C28: an appointment retrieval or an appointment create triggered by the
\* slot collector acts on the client_id the session holds when it is called.
C28_OwnClientIdOnly ==
    [][ \A j \in 1..Len(last'.ops) :
          ( /\ last'.kind = "process_query"
            /\ last'.ops[j].op \in ClientIdOps
            /\ "client_id" \in DOMAIN last'.merged )
          => last'.ops[j].client_id = last'.merged.client_id ]_vars

\* only the caller c1 has called the recognizer so far: its calls follow one
\* another
OneCaller(v) == v.pc["c2"] = "idle" /\ v.ret["c2"] = NULL

\* C29: for every sequence of start_dictation and stop_dictation calls at
\* most one capture loop is running, and only the loop of the latest
\* start_dictation appends to the text: a loop that stop_dictation stopped
\* waiting for is not revived by the next start_dictation.
C29_OneCaptureLoop ==
    [][ (OneCaller(voice) /\ OneCaller(voice'))
        => /\ Cardinality(voice'.threads) <= 1
           /\ Len(voice'.dictation_text) > Len(voice.dictation_text)
                 => voice'.dictation_text[Len(voice'.dictation_text)] = voice.created ]_vars

SpokenTexts == [i \in 1..Len(app.spoken) |-> app.spoken[i].text]

InHand == IF app.engine = "saying" THEN << app.saying >> ELSE << >>

\* C30 as stated: every text accepted while the engine thread is running is
\* eventually said, whatever happens afterwards.
C30_AcceptedTextIsSpoken ==
    \A k \in 1..MaxSpeaks :
        (Len(app.accepted) >= k /\ app.is_running /\ app.engine \in {"idle", "saying"})
        ~> (Len(app.spoken) >= k)

\* C30: the engine says the texts accepted by speak one at a time and in the
\* order they were queued (what was said, what is being said and what waits
\* make up the accepted texts, in that order); and every text accepted while
\* the engine thread is running is eventually said, also after an error on an
\* earlier text, unless stop() is called before its turn.
C30_QueuedTextsAreSpoken ==
    /\ [](app.accepted = SpokenTexts \o InHand \o app.speak_queue)
    /\ [](\A i \in 1..Len(app.accepted) : ~IsBlank(app.accepted[i]))
    /\ \A k \in 1..MaxSpeaks :
          (Len(app.accepted) >= k /\ app.is_running /\ app.engine \in {"idle", "saying"})
          ~> (Len(app.spoken) >= k \/ ~app.is_running)

\* a text was said after the engine failed on the text before it
C30_Witness ==
    /\ Len(app.spoken) >= 2
    /\ app.spoken[1].failed
    /\ ~app.spoken[2].failed
    /\ app.spoken[1].text # app.spoken[2].text
    /\ app.is_running

====
